---- MODULE Spec2Model ----
(***************************************************************************)
(* Safe-T mini hardware-wallet plugin (electrum_dash/plugins/safe_t):      *)
(* transaction translation, multisig descriptors and the signing session.  *)
(*                                                                         *)
(* Python values are written as follows.  None is the empty tuple and a    *)
(* present optional value x is <<x>>; lists and byte strings are           *)
(* sequences; a call that may raise yields a record whose status is "ok"   *)
(* (with value) or "raise" (with error).                                   *)
(***************************************************************************)
EXTENDS Integers, Sequences, FiniteSets, TLC

VARIABLES
    call,        \* translation entry point under examination and its arguments
    ret,         \* what that entry point produced
    prev_tx,     \* SafeTPlugin.prev_tx, one attribute shared by every keystore
    hwd_thread,  \* keystore whose call occupies the hardware-device thread, 0 if free
    clients,     \* device manager's handle cache: keystore -> None or <<client>>
    sessions     \* per keystore: the sign_transaction call in progress

vars == <<call, ret, prev_tx, hwd_thread, clients, sessions>>

\* ----------------------------------------------------------------- bounds
MaxCosigners == 3
MaxInputs == 2
MaxOutputs == 2
MaxRequests == 2

\* ------------------------------------------------------- python plumbing
None == <<>>
Some(x) == <<x>>
Ok(v) == [status |-> "ok", value |-> v]
Raise(e) == [status |-> "raise", error |-> e]
Returned == [status |-> "return"]

Indices(s) == 1..Len(s)
Range(s) == {s[i] : i \in Indices(s)}

\* sequences over S, without repetition, of length lo..hi
DistinctSeqs(S, lo, hi) ==
    UNION {{s \in [1..n -> S] : \A i, j \in 1..n : i # j => s[i] # s[j]} : n \in lo..hi}

SeqsUpTo(S, n) == UNION {[1..k -> S] : k \in 0..n}

\* ------------------------------------------------------ keys and wallets
\* Extended public keys are numbered in the order of their base58 strings.
Xpubs == 1..MaxCosigners

\* BIP32Node.from_xkey: the node an extended key decodes to.
BIP32Node_from_xkey(xpub) ==
    [depth |-> 3, fingerprint |-> 100 + xpub, child_num |-> 0,
     chain_code |-> 200 + xpub, public_key |-> 300 + xpub]

\* Public key derived from an account key along a (change, index) suffix.
\* Injective in the account key for a fixed suffix; its order is unrelated
\* to the order of the account keys and moves with the suffix.
derive_pubkey(xpub, der_suffix) ==
    (xpub * 7 + der_suffix[1] * 3 + der_suffix[2]) % 11

DerSuffixes == {<<0, 5>>, <<1, 2>>}

\* The keystore doing the signing: its account key and derivation prefix.
MyKeystore == [xpub |-> 1, derivation_prefix |-> <<44, 5, 0>>]

\* ------------------------------------------------------------ script types
get_safet_input_script_type(electrum_txin_type) ==
    IF electrum_txin_type = "p2pkh" THEN Ok("SPENDADDRESS")
    ELSE IF electrum_txin_type = "p2sh" THEN Ok("SPENDMULTISIG")
    ELSE Raise("ValueError")

get_safet_output_script_type(electrum_txin_type) ==
    IF electrum_txin_type = "p2pkh" THEN Ok("PAYTOADDRESS")
    ELSE IF electrum_txin_type = "p2sh" THEN Ok("PAYTOMULTISIG")
    ELSE Raise("ValueError")

\* ------------------------------------------------------ multisig descriptor
_make_node_path(xpub, address_n) ==
    [node |-> BIP32Node_from_xkey(xpub), address_n |-> address_n]

\* _make_multisig with the co-signer count stored as the threshold
_make_multisig_threshold_slip(m, xpubs) ==
    IF Len(xpubs) = 1 THEN None
    ELSE Some([pubkeys |-> [i \in Indices(xpubs) |-> _make_node_path(xpubs[i][1], xpubs[i][2])],
               signatures |-> [i \in Indices(xpubs) |-> <<>>],
               m |-> Len(xpubs)])

_make_multisig(m, xpubs) ==
    IF Len(xpubs) = 1 THEN None
    ELSE Some([pubkeys |-> [i \in Indices(xpubs) |-> _make_node_path(xpubs[i][1], xpubs[i][2])],
               signatures |-> [i \in Indices(xpubs) |-> <<>>],
               m |-> m])

\* python's order on 2-tuples
TupleLess(p, q) == p[1] < q[1] \/ (p[1] = q[1] /\ p[2] < q[2])

\* python's sorted() on a list of 2-tuples: position = number of smaller
\* elements (the lists sorted here hold no duplicates)
sorted(pairs) ==
    [k \in Indices(pairs) |->
        CHOOSE p \in Range(pairs) :
            Cardinality({q \in Range(pairs) : TupleLess(q, p)}) = k - 1]

\* wallet.get_master_public_keys(): one per keystore, in the wallet's own order
get_master_public_keys(wallet) == wallet.keystores

\* wallet.get_public_keys(address): the address key of each keystore, same order
get_public_keys(wallet, deriv_suffix) ==
    [i \in Indices(wallet.keystores) |-> derive_pubkey(wallet.keystores[i], deriv_suffix)]

zip(a, b) == [i \in Indices(a) |-> <<a[i], b[i]>>]

\* show_address without the sort: the pairs are used in keystore order
show_address_unsorted(wallet, deriv_suffix, helper_ok, firmware_ok) ==
    IF ~helper_ok THEN Returned
    ELSE IF ~firmware_ok THEN Returned
    ELSE
      LET address_n == MyKeystore.derivation_prefix \o deriv_suffix
          script_type == get_safet_input_script_type(wallet.txin_type)
          xpubs == get_master_public_keys(wallet)
          pairs == zip(get_public_keys(wallet, deriv_suffix), xpubs)
          multisig == IF Len(xpubs) > 1
                      THEN _make_multisig(wallet.m,
                               [i \in Indices(pairs) |-> <<pairs[i][2], deriv_suffix>>])
                      ELSE None
      IN  IF script_type.status = "raise" THEN script_type
          ELSE Ok([address_n |-> address_n, multisig |-> multisig,
                   script_type |-> script_type.value])

\* show_address: the arguments of client.get_address, or an early return
show_address(wallet, deriv_suffix, helper_ok, firmware_ok) ==
    IF ~helper_ok THEN Returned
    ELSE IF ~firmware_ok THEN Returned
    ELSE
      LET address_n == MyKeystore.derivation_prefix \o deriv_suffix
          script_type == get_safet_input_script_type(wallet.txin_type)
          xpubs == get_master_public_keys(wallet)
          sorted_pairs == sorted(zip(get_public_keys(wallet, deriv_suffix), xpubs))
          multisig == IF Len(xpubs) > 1
                      THEN _make_multisig(wallet.m,
                               [i \in Indices(sorted_pairs) |-> <<sorted_pairs[i][2], deriv_suffix>>])
                      ELSE None
      IN  IF script_type.status = "raise" THEN script_type
          ELSE Ok([address_n |-> address_n, multisig |-> multisig,
                   script_type |-> script_type.value])

\* ------------------------------------------------------------ byte strings
HexDigits == <<"0", "1", "2", "3", "4", "5", "6", "7",
               "8", "9", "a", "b", "c", "d", "e", "f">>

\* util.bh2u / bytes.hex(): two lower-case hex digits per byte
RECURSIVE bh2u(_)
bh2u(x) ==
    IF x = <<>> THEN <<>>
    ELSE <<HexDigits[(Head(x) \div 16) + 1], HexDigits[(Head(x) % 16) + 1]>> \o bh2u(Tail(x))

\* ------------------------------------------------------------ transactions
ZeroHash == <<0, 0>>          \* stands for b"\x00"*32
\* 0xffffffff, written as the signed 32-bit integer it is on the wire
COINBASE_PREV_INDEX == -1
Txids == {<<17>>, <<34>>, <<51>>}

\* TxOutpoint.is_coinbase: the previous-output hash is all zero
is_coinbase_input(txin) == txin.prevout.txid = ZeroHash

\* hw_wallet.plugin.get_xpubs_and_der_suffixes_from_txinout: every co-signer's
\* extended key with this input's or output's derivation suffix
get_xpubs_and_der_suffixes_from_txinout(tx, txinout) ==
    [i \in Indices(txinout.xpubs) |-> <<txinout.xpubs[i], txinout.der_suffix>>]

\* keystore.find_my_pubkey_in_txinout: the full path when one of the known
\* public keys derives from this keystore, else None
find_my_pubkey_in_txinout(keystore, txinout) ==
    IF keystore.xpub \in Range(txinout.xpubs)
    THEN keystore.derivation_prefix \o txinout.der_suffix
    ELSE None

TxInputType ==
    [script_type |-> None, multisig |-> None, address_n |-> <<>>, amount |-> None,
     prev_hash |-> None, prev_index |-> None, script_sig |-> None, sequence |-> None]

\* the for_sig branch with an assertion on the path, as tx_outputs has
tx_inputs_for_sig_asserting(tx, txin, keystore) ==
    IF ~tx.partial THEN Raise("AssertionError")
    ELSE
      LET multisig == IF Len(txin.xpubs) > 1
                      THEN _make_multisig(txin.num_sig,
                               get_xpubs_and_der_suffixes_from_txinout(tx, txin))
                      ELSE None
          script_type == get_safet_input_script_type(txin.script_type)
          full_path == find_my_pubkey_in_txinout(keystore, txin)
      IN  IF script_type.status = "raise" THEN script_type
          ELSE IF full_path = None THEN Raise("AssertionError")
          ELSE Ok([TxInputType EXCEPT !.script_type = Some(script_type.value),
                                      !.multisig = multisig,
                                      !.address_n = full_path])

\* tx_inputs, the for_sig branch of one non-coinbase input (lines 339-354)
tx_inputs_for_sig(tx, txin, keystore) ==
    IF ~tx.partial THEN Raise("AssertionError")
    ELSE
      LET multisig == IF Len(txin.xpubs) > 1
                      THEN _make_multisig(txin.num_sig,
                               get_xpubs_and_der_suffixes_from_txinout(tx, txin))
                      ELSE None
          script_type == get_safet_input_script_type(txin.script_type)
          full_path == find_my_pubkey_in_txinout(keystore, txin)
          txinputtype == [TxInputType EXCEPT !.script_type = Some(script_type.value),
                                             !.multisig = multisig]
      IN  IF script_type.status = "raise" THEN script_type
          ELSE IF full_path # None
               THEN Ok([txinputtype EXCEPT !.address_n = @ \o full_path])
               ELSE Ok(txinputtype)

\* tx_inputs, the fields every input gets (lines 359-367)
tx_inputs_common(txin, txinputtype, prev_hash, prev_index) ==
    [txinputtype EXCEPT
        !.amount = IF txin.value # None THEN txin.value ELSE @,
        !.prev_hash = Some(prev_hash),
        !.prev_index = Some(prev_index),
        !.script_sig = IF txin.script_sig # None THEN txin.script_sig ELSE @,
        !.sequence = Some(txin.nsequence)]

\* one iteration in which signing mode skips the copy of the scriptSig
tx_inputs_txin_sig_drops_script_sig(tx, txin, for_sig, keystore) ==
    IF is_coinbase_input(txin)
    THEN Ok(tx_inputs_common(txin, TxInputType, ZeroHash, COINBASE_PREV_INDEX))
    ELSE
      LET first == IF for_sig THEN tx_inputs_for_sig(tx, txin, keystore)
                   ELSE Ok(TxInputType)
      IN  IF first.status = "raise" THEN first
          ELSE Ok([tx_inputs_common(txin, first.value, txin.prevout.txid, txin.prevout.out_idx)
                      EXCEPT !.script_sig = IF for_sig THEN None ELSE @])

\* tx_inputs, one iteration of the loop (lines 334-369)
tx_inputs_txin(tx, txin, for_sig, keystore) ==
    IF is_coinbase_input(txin)
    THEN Ok(tx_inputs_common(txin, TxInputType, ZeroHash, COINBASE_PREV_INDEX))
    ELSE
      LET first == IF for_sig THEN tx_inputs_for_sig(tx, txin, keystore)
                   ELSE Ok(TxInputType)
      IN  IF first.status = "raise" THEN first
          ELSE Ok(tx_inputs_common(txin, first.value, txin.prevout.txid, txin.prevout.out_idx))

\* tx_inputs: the list of translated inputs; the first input that raises
\* ends the call
tx_inputs(tx, for_sig, keystore) ==
    LET each == [i \in Indices(tx.inputs) |-> tx_inputs_txin(tx, tx.inputs[i], for_sig, keystore)]
        bad == {i \in Indices(tx.inputs) : each[i].status = "raise"}
    IN  IF bad = {} THEN Ok([i \in Indices(tx.inputs) |-> each[i].value])
        ELSE Raise(each[CHOOSE i \in bad : \A j \in bad : i <= j].error)

\* ----------------------------------------------------------------- outputs
TxOutputType ==
    [multisig |-> None, amount |-> None, address_n |-> <<>>, script_type |-> None,
     address |-> None, op_return_data |-> None]

\* hw_wallet.plugin.is_any_tx_output_on_change_branch
is_any_tx_output_on_change_branch(tx) ==
    \E i \in Indices(tx.outputs) : tx.outputs[i].is_change

\* hw_wallet.plugin.trezor_validate_op_return_output_and_get_data: the payload
\* of a zero-value OP_RETURN <push> script, else an error
trezor_validate_op_return_output_and_get_data(txout) ==
    IF txout.scriptpubkey.kind # "op_return" THEN Raise("UserFacingException")
    ELSE IF txout.value # 0 THEN Raise("UserFacingException")
    ELSE Ok(txout.scriptpubkey.data)

create_output_by_derivation(tx, txout, keystore) ==
    LET script_type == get_safet_output_script_type(txout.script_type)
        multisig == IF Len(txout.xpubs) > 1
                    THEN _make_multisig(txout.num_sig,
                             get_xpubs_and_der_suffixes_from_txinout(tx, txout))
                    ELSE None
        full_path == find_my_pubkey_in_txinout(keystore, txout)
    IN  IF script_type.status = "raise" THEN script_type
        ELSE IF full_path = None THEN Raise("AssertionError")
        ELSE Ok([TxOutputType EXCEPT !.multisig = multisig,
                                     !.amount = Some(txout.value),
                                     !.address_n = full_path,
                                     !.script_type = Some(script_type.value)])

create_output_by_address(txout) ==
    IF txout.address # None
    THEN Ok([TxOutputType EXCEPT !.amount = Some(txout.value),
                                 !.script_type = Some("PAYTOADDRESS"),
                                 !.address = txout.address])
    ELSE LET data == trezor_validate_op_return_output_and_get_data(txout)
         IN  IF data.status = "raise" THEN data
             ELSE Ok([TxOutputType EXCEPT !.amount = Some(txout.value),
                                          !.script_type = Some("PAYTOOPRETURN"),
                                          !.op_return_data = Some(data.value)])

\* the choice without the "not has_change" test
use_create_by_derivation_every_match(txout, has_change, any_output_on_change_branch) ==
    txout.is_mine /\ txout.is_change = any_output_on_change_branch

\* the choice without the comparison of is_change to the classification
use_create_by_derivation_any_owned(txout, has_change, any_output_on_change_branch) ==
    txout.is_mine /\ ~has_change

\* tx_outputs, lines 417-426: whether this output goes out by derivation
use_create_by_derivation(txout, has_change, any_output_on_change_branch) ==
    /\ txout.is_mine /\ ~has_change
    /\ txout.is_change = any_output_on_change_branch

\* tx_outputs, the loop of lines 415-432 from output i on
RECURSIVE tx_outputs_loop(_, _, _, _, _, _)
tx_outputs_loop(tx, keystore, i, has_change, any_output_on_change_branch, outputs) ==
    IF i > Len(tx.outputs) THEN Ok(outputs)
    ELSE
      LET txout == tx.outputs[i]
          use == use_create_by_derivation(txout, has_change, any_output_on_change_branch)
          txoutputtype == IF use THEN create_output_by_derivation(tx, txout, keystore)
                          ELSE create_output_by_address(txout)
      IN  IF txoutputtype.status = "raise" THEN txoutputtype
          ELSE tx_outputs_loop(tx, keystore, i + 1, has_change \/ use,
                               any_output_on_change_branch,
                               Append(outputs, txoutputtype.value))

tx_outputs(tx, keystore) ==
    tx_outputs_loop(tx, keystore, 1, FALSE, is_any_tx_output_on_change_branch(tx), <<>>)

\* ------------------------------------------------- translation, call by call
Pending == [status |-> "pending"]

\* inputs a wallet hands over: coinbase, owned and foreign single-key inputs,
\* multisig inputs with and without this keystore, an unsupported script type
TxInOwnership ==
    {[script_type |-> "p2pkh", xpubs |-> <<1>>, num_sig |-> 1],
     [script_type |-> "p2pkh", xpubs |-> <<2>>, num_sig |-> 1],
     [script_type |-> "p2sh", xpubs |-> <<1, 2>>, num_sig |-> 2],
     [script_type |-> "p2sh", xpubs |-> <<2, 3>>, num_sig |-> 1],
     [script_type |-> "p2wpkh", xpubs |-> <<1>>, num_sig |-> 1]}

TxInAmounts ==
    {[value |-> Some(7), script_sig |-> None],
     [value |-> None, script_sig |-> Some(<<71>>)],
     [value |-> Some(9), script_sig |-> Some(<<72>>)]}

TxInPrevouts ==
    {[txid |-> <<17>>, out_idx |-> 0], [txid |-> <<34>>, out_idx |-> 1]}

MkTxIn(prevout, amt, own) ==
    [prevout |-> prevout, value |-> amt.value, script_sig |-> amt.script_sig,
     nsequence |-> 65534, script_type |-> own.script_type, xpubs |-> own.xpubs,
     num_sig |-> own.num_sig, der_suffix |-> <<0, 5>>, utxo |-> None]

CoinbaseTxIn ==
    [prevout |-> [txid |-> ZeroHash, out_idx |-> COINBASE_PREV_INDEX], value |-> Some(50),
     script_sig |-> Some(<<81>>), nsequence |-> 65535, script_type |-> "coinbase",
     xpubs |-> <<>>, num_sig |-> 0, der_suffix |-> <<>>, utxo |-> None]

TxInSet ==
    {CoinbaseTxIn} \cup
    {MkTxIn(p, a, o) : p \in TxInPrevouts, a \in TxInAmounts, o \in TxInOwnership}

\* outputs: an owned-key address, a multisig address, a foreign-key address,
\* an unsupported script type, a well-formed and a malformed OP_RETURN
TxOutShapes ==
    {[address |-> Some("XaddrA"), script_type |-> "p2pkh", xpubs |-> <<1>>, num_sig |-> 1,
      value |-> 10, scriptpubkey |-> [kind |-> "p2pkh"]],
     [address |-> Some("7addrB"), script_type |-> "p2sh", xpubs |-> <<1, 2>>, num_sig |-> 2,
      value |-> 20, scriptpubkey |-> [kind |-> "p2sh"]],
     [address |-> Some("XaddrC"), script_type |-> "p2pkh", xpubs |-> <<2>>, num_sig |-> 1,
      value |-> 30, scriptpubkey |-> [kind |-> "p2pkh"]],
     [address |-> Some("addrD"), script_type |-> "p2wpkh", xpubs |-> <<1>>, num_sig |-> 1,
      value |-> 40, scriptpubkey |-> [kind |-> "p2wpkh"]],
     [address |-> None, script_type |-> "p2pkh", xpubs |-> <<>>, num_sig |-> 0,
      value |-> 0, scriptpubkey |-> [kind |-> "op_return", data |-> <<222, 173>>]],
     [address |-> None, script_type |-> "p2pkh", xpubs |-> <<>>, num_sig |-> 0,
      value |-> 0, scriptpubkey |-> [kind |-> "other"]]}

MkTxOut(shape, is_mine, is_change) ==
    [address |-> shape.address, script_type |-> shape.script_type, xpubs |-> shape.xpubs,
     num_sig |-> shape.num_sig, value |-> shape.value, scriptpubkey |-> shape.scriptpubkey,
     is_mine |-> is_mine, is_change |-> is_change,
     der_suffix |-> IF is_change THEN <<1, 2>> ELSE <<0, 5>>]

TxOutSet == {MkTxOut(s, mine, change) : s \in TxOutShapes, mine \in BOOLEAN, change \in BOOLEAN}

MkTx(partial, inputs, outputs) ==
    [partial |-> partial, inputs |-> inputs, outputs |-> outputs,
     version |-> 2, locktime |-> 0, complete |-> FALSE]

CosignerOrders == DistinctSeqs(Xpubs, 1, MaxCosigners)
Reorderings(a) == {b \in CosignerOrders : Len(b) = Len(a) /\ Range(b) = Range(a)}

TxOutputsCalls ==
    {[fn |-> "tx_outputs", tx |-> MkTx(TRUE, <<>>, o)] : o \in SeqsUpTo(TxOutSet, MaxOutputs)}

TxInputsCalls ==
    {[fn |-> "tx_inputs", tx |-> MkTx(p, i, <<>>)] :
        p \in BOOLEAN, i \in SeqsUpTo(TxInSet, MaxInputs)}

MakeMultisigCalls ==
    UNION {{[fn |-> "_make_multisig", m |-> m, der_suffix |-> d, given |-> a, reordered |-> b] :
               m \in 0..(MaxCosigners + 1), d \in DerSuffixes, b \in Reorderings(a)} :
           a \in CosignerOrders}

ShowAddressCalls ==
    UNION {{[fn |-> "show_address", m |-> m, der_suffix |-> d, txin_type |-> t,
             wallet |-> a, cosigner_wallet |-> b] :
               m \in 1..Len(a), d \in DerSuffixes, t \in {"p2sh", "p2pkh", "p2wpkh"},
               b \in Reorderings(a)} :
           a \in CosignerOrders}

InitialRet(fn) ==
    IF fn = "tx_outputs" THEN [outputs |-> Pending]
    ELSE IF fn = "tx_inputs" THEN [for_sig |-> Pending, reference |-> Pending]
    ELSE IF fn = "_make_multisig" THEN [given |-> Pending, reordered |-> Pending]
    ELSE [wallet |-> Pending, cosigner_wallet |-> Pending]

\* the plugin before any session: no prev_tx attribute yet, nothing paired
Keystores == {1, 2}
NoSessions == [k \in Keystores |-> [state |-> "Idle"]]
PluginIdle ==
    /\ prev_tx = None
    /\ hwd_thread = 0
    /\ clients = [k \in Keystores |-> None]
    /\ sessions = NoSessions

InitTranslate ==
    /\ \/ call \in TxOutputsCalls
       \/ call \in TxInputsCalls
       \/ call \in MakeMultisigCalls
       \/ call \in ShowAddressCalls
    /\ ret = InitialRet(call.fn)
    /\ PluginIdle

TxOutputs ==
    /\ call.fn = "tx_outputs" /\ ret.outputs = Pending
    /\ ret' = [ret EXCEPT !.outputs = tx_outputs(call.tx, MyKeystore)]
    /\ UNCHANGED <<call, prev_tx, hwd_thread, clients, sessions>>

TxInputsForSig ==
    /\ call.fn = "tx_inputs" /\ ret.for_sig = Pending
    /\ ret' = [ret EXCEPT !.for_sig = tx_inputs(call.tx, TRUE, MyKeystore)]
    /\ UNCHANGED <<call, prev_tx, hwd_thread, clients, sessions>>

TxInputsReference ==
    /\ call.fn = "tx_inputs" /\ ret.reference = Pending
    /\ ret' = [ret EXCEPT !.reference = tx_inputs(call.tx, FALSE, None)]
    /\ UNCHANGED <<call, prev_tx, hwd_thread, clients, sessions>>

WithSuffix(xpubs, d) == [i \in Indices(xpubs) |-> <<xpubs[i], d>>]

MakeMultisigGiven ==
    /\ call.fn = "_make_multisig" /\ ret.given = Pending
    /\ ret' = [ret EXCEPT !.given =
                  Ok(_make_multisig(call.m, WithSuffix(call.given, call.der_suffix)))]
    /\ UNCHANGED <<call, prev_tx, hwd_thread, clients, sessions>>

MakeMultisigReordered ==
    /\ call.fn = "_make_multisig" /\ ret.reordered = Pending
    /\ ret' = [ret EXCEPT !.reordered =
                  Ok(_make_multisig(call.m, WithSuffix(call.reordered, call.der_suffix)))]
    /\ UNCHANGED <<call, prev_tx, hwd_thread, clients, sessions>>

WalletOf(order) == [m |-> call.m, keystores |-> order, txin_type |-> call.txin_type]

ShowAddressWallet ==
    /\ call.fn = "show_address" /\ ret.wallet = Pending
    /\ \E helper_ok \in BOOLEAN, firmware_ok \in BOOLEAN :
          ret' = [ret EXCEPT !.wallet =
                     show_address(WalletOf(call.wallet), call.der_suffix, helper_ok, firmware_ok)]
    /\ UNCHANGED <<call, prev_tx, hwd_thread, clients, sessions>>

ShowAddressCosignerWallet ==
    /\ call.fn = "show_address" /\ ret.cosigner_wallet = Pending
    /\ \E helper_ok \in BOOLEAN, firmware_ok \in BOOLEAN :
          ret' = [ret EXCEPT !.cosigner_wallet =
                     show_address(WalletOf(call.cosigner_wallet), call.der_suffix,
                                  helper_ok, firmware_ok)]
    /\ UNCHANGED <<call, prev_tx, hwd_thread, clients, sessions>>

NextTranslate ==
    \/ TxOutputs
    \/ TxInputsForSig
    \/ TxInputsReference
    \/ MakeMultisigGiven
    \/ MakeMultisigReordered
    \/ ShowAddressWallet
    \/ ShowAddressCosignerWallet

SpecTranslate == InitTranslate /\ [][NextTranslate]_vars

\* ------------------------------------------------------------ device handles
minimum_firmware == <<1, 0, 5>>

\* client.atleast_version: the firmware version tuple is at least the given one
atleast_version(firmware, version) ==
    \/ firmware[1] > version[1]
    \/ firmware[1] = version[1] /\ firmware[2] > version[2]
    \/ firmware[1] = version[1] /\ firmware[2] = version[2] /\ firmware[3] >= version[3]

\* create_client without the firmware test
create_client_any_firmware(firmware, transport, ping_ok, handler) ==
    IF transport # "ok" THEN Ok(None)
    ELSE IF ~ping_ok THEN Ok(None)
    ELSE Ok(Some([firmware |-> firmware, handler |-> handler]))

\* create_client: None, a client, or UserFacingException.  transport is what
\* get_transport did: "ok", "raise" or "none".
create_client(firmware, transport, ping_ok, handler) ==
    IF transport = "raise" THEN Ok(None)
    ELSE IF transport = "none" THEN Ok(None)
    ELSE IF ~ping_ok THEN Ok(None)
    ELSE IF ~atleast_version(firmware, minimum_firmware)
         THEN IF handler THEN Ok(None) ELSE Raise("UserFacingException")
    ELSE Ok(Some([firmware |-> firmware, handler |-> handler]))

\* plugin.runs_in_hwd_thread: decorated calls run one at a time on the one
\* hardware-device thread; a call nested in the running one runs inline
runs_in_hwd_thread(thread, keystore_id) == thread \in {0, keystore_id}

\* ------------------------------------------------------------ signing session
KeystoreOf(k) == [xpub |-> k, derivation_prefix |-> <<44, 5, k - 1>>]

TransactionType == [version |-> None, lock_time |-> None, inputs |-> <<>>, bin_outputs |-> <<>>]

\* electrum_tx_to_txtype; tx is None or <<a transaction>>
electrum_tx_to_txtype(tx) ==
    IF tx = None THEN TransactionType
    ELSE [version |-> Some(tx[1].version),
          lock_time |-> Some(tx[1].locktime),
          inputs |-> tx_inputs(tx[1], FALSE, None).value,
          bin_outputs |-> [i \in Indices(tx[1].outputs) |->
                              [amount |-> tx[1].outputs[i].value,
                               script_pubkey |-> tx[1].outputs[i].scriptpubkey]]]

\* get_tx written with dict.get: an unknown hash yields an empty description
get_tx_with_dict_get(self_prev_tx, tx_hash) ==
    IF self_prev_tx = None THEN Raise("AttributeError")
    ELSE IF tx_hash \notin DOMAIN self_prev_tx[1] THEN Ok(electrum_tx_to_txtype(None))
    ELSE Ok(electrum_tx_to_txtype(self_prev_tx[1][tx_hash]))

\* get_tx: self.prev_tx[tx_hash] translated; KeyError for an unknown hash
get_tx(self_prev_tx, tx_hash) ==
    IF self_prev_tx = None THEN Raise("AttributeError")
    ELSE IF tx_hash \notin DOMAIN self_prev_tx[1] THEN Raise("KeyError")
    ELSE Ok(electrum_tx_to_txtype(self_prev_tx[1][tx_hash]))

\* SafeTKeyStore.sign_transaction up to its call of the plugin: an early
\* return, UserFacingException, or the prev_tx dict it built
keystore_sign_transaction(tx) ==
    IF tx.complete THEN Returned
    ELSE IF \E i \in Indices(tx.inputs) : tx.inputs[i].utxo = None
         THEN Raise("UserFacingException")
    ELSE Ok([h \in {bh2u(tx.inputs[i].prevout.txid) : i \in Indices(tx.inputs)} |->
                LET last == CHOOSE i \in Indices(tx.inputs) :
                                /\ bh2u(tx.inputs[i].prevout.txid) = h
                                /\ \A j \in Indices(tx.inputs) :
                                      bh2u(tx.inputs[j].prevout.txid) = h => j <= i
                IN  tx.inputs[last].utxo])

\* sign_transaction without the assignment to self.prev_tx
sign_transaction_keeps_old_prev_tx(self_prev_tx, client, keystore, tx, dict) ==
    LET inputs == tx_inputs(tx, TRUE, keystore)
        outputs == tx_outputs(tx, keystore)
    IN  [prev_tx |-> self_prev_tx,
         outcome |-> IF inputs.status = "raise" THEN inputs
                     ELSE IF outputs.status = "raise" THEN outputs
                     ELSE IF client = None THEN Raise("AttributeError")
                     ELSE Ok([inputs |-> inputs.value, outputs |-> outputs.value,
                              lock_time |-> tx.locktime, version |-> tx.version])]

\* SafeTPlugin.sign_transaction, lines 292-296: the new self.prev_tx and
\* either the exception raised or the arguments client.sign_tx is called with
sign_transaction(self_prev_tx, client, keystore, tx, dict) ==
    LET inputs == tx_inputs(tx, TRUE, keystore)
        outputs == tx_outputs(tx, keystore)
    IN  [prev_tx |-> Some(dict),
         outcome |-> IF inputs.status = "raise" THEN inputs
                     ELSE IF outputs.status = "raise" THEN outputs
                     ELSE IF client = None THEN Raise("AttributeError")
                     ELSE Ok([inputs |-> inputs.value, outputs |-> outputs.value,
                              lock_time |-> tx.locktime, version |-> tx.version])]

SIGHASH_ALL == <<"0", "1">>

\* the end of sign_transaction with update_signatures in a "finally" clause
sign_transaction_return_finally(sign_tx) ==
    IF sign_tx.status = "raise"
    THEN [raised |-> Some(sign_tx.error), update_signatures |-> <<<<>>>>]
    ELSE [raised |-> None,
          update_signatures |->
              <<[i \in Indices(sign_tx.value) |-> bh2u(sign_tx.value[i]) \o SIGHASH_ALL]>>]

\* the end of sign_transaction without the '01' suffix
sign_transaction_return_no_sighash(sign_tx) ==
    IF sign_tx.status = "raise"
    THEN [raised |-> Some(sign_tx.error), update_signatures |-> <<>>]
    ELSE [raised |-> None,
          update_signatures |->
              <<[i \in Indices(sign_tx.value) |-> bh2u(sign_tx.value[i])]>>]

\* SafeTPlugin.sign_transaction, lines 296-299, once client.sign_tx is over:
\* the exception passed on, or the calls of tx.update_signatures made
sign_transaction_return(sign_tx) ==
    IF sign_tx.status = "raise"
    THEN [raised |-> Some(sign_tx.error), update_signatures |-> <<>>]
    ELSE [raised |-> None,
          update_signatures |->
              <<[i \in Indices(sign_tx.value) |-> bh2u(sign_tx.value[i]) \o SIGHASH_ALL]>>]

\* previous transactions, as the wallet stores them
PrevTxA == MkTx(FALSE, <<CoinbaseTxIn>>, <<MkTxOut(CHOOSE s \in TxOutShapes : s.value = 10, FALSE, FALSE)>>)
PrevTxB ==
    MkTx(FALSE,
         <<MkTxIn([txid |-> <<51>>, out_idx |-> 0], [value |-> None, script_sig |-> Some(<<71>>)],
                  [script_type |-> "p2pkh", xpubs |-> <<>>, num_sig |-> 0])>>,
         <<MkTxOut(CHOOSE s \in TxOutShapes : s.value = 20, FALSE, FALSE),
           MkTxOut(CHOOSE s \in TxOutShapes : s.value = 30, FALSE, FALSE)>>)

Spending(txid, out_idx, own, utxo) ==
    [MkTxIn([txid |-> txid, out_idx |-> out_idx], [value |-> Some(7), script_sig |-> None], own)
        EXCEPT !.utxo = utxo]

Owned(k) == [script_type |-> "p2pkh", xpubs |-> <<k>>, num_sig |-> 1]
Shared == [script_type |-> "p2sh", xpubs |-> <<1, 2>>, num_sig |-> 2]
Segwit(k) == [script_type |-> "p2wpkh", xpubs |-> <<k>>, num_sig |-> 1]

\* an external payment and the change back to keystore k
PayAndChange(k) ==
    <<MkTxOut(CHOOSE s \in TxOutShapes : s.value = 30, FALSE, FALSE),
      [MkTxOut(CHOOSE s \in TxOutShapes : s.value = 10, TRUE, TRUE) EXCEPT !.xpubs = <<k>>]>>

\* transactions keystore k is asked to sign: one input, two inputs of one
\* previous transaction, MaxInputs inputs, a missing previous transaction,
\* an unsupported script type, an already complete transaction
SessionTxs(k) ==
    {MkTx(TRUE, <<Spending(<<17>>, 0, Owned(k), Some(PrevTxA))>>, PayAndChange(k)),
     MkTx(TRUE, <<Spending(<<34>>, 0, Shared, Some(PrevTxB)),
                  Spending(<<34>>, 1, Shared, Some(PrevTxB))>>, PayAndChange(k)),
     MkTx(TRUE, [i \in 1..MaxInputs |-> Spending(<<51>>, i, Owned(k), Some(PrevTxA))],
          PayAndChange(k)),
     MkTx(TRUE, <<Spending(<<17>>, 0, Owned(k), None)>>, PayAndChange(k)),
     MkTx(TRUE, <<Spending(<<17>>, 0, Segwit(k), Some(PrevTxA))>>, PayAndChange(k)),
     [MkTx(TRUE, <<Spending(<<17>>, 0, Owned(k), Some(PrevTxA))>>, PayAndChange(k))
         EXCEPT !.complete = TRUE]}

\* firmware of the devices plugged in; the first two are older than 1.0.5
OldFirmwares == {<<0, 9, 9>>, <<1, 0, 4>>}
Firmwares == OldFirmwares \cup {<<1, 0, 5>>}

\* signatures the device may return, DER bytes cut short
DeviceSignature == {<<48, 69>>, <<48, 255, 2>>}

\* hashes a device may ask for: those of the inputs and one of no input
RequestedHashes == {bh2u(t) : t \in Txids}

NewSession(tx) ==
    [pc |-> "idle",             \* idle, sign_tx, get_tx, returned, raised
     started |-> FALSE,         \* SafeTPlugin.sign_transaction was entered
     tx |-> tx,
     prev_tx |-> None,          \* the dict the keystore built for this call
     sign_tx |-> None,          \* arguments client.sign_tx was called with
     requests |-> 0,            \* get_tx callbacks so far
     requested |-> None,        \* hash of the callback in progress or failed
     supplied |-> 0,            \* callbacks answered
     answer |-> None,           \* the last answer: hash and description
     device_signatures |-> None,
     update_signatures |-> <<>>, \* calls of tx.update_signatures, with arguments
     error |-> None]

Init ==
    /\ call = [fn |-> "sign_transaction"]
    /\ ret = [outputs |-> Pending]
    /\ prev_tx = None
    /\ hwd_thread = 0
    /\ clients \in [Keystores -> {[firmware |-> f, handle |-> None, created |-> Pending] :
                                     f \in Firmwares}]
    /\ sessions \in {ss \in [Keystores -> {NewSession(tx) : tx \in UNION {SessionTxs(k) : k \in Keystores}}] :
                        \A k \in Keystores : ss[k].tx \in SessionTxs(k)}

\* the device manager pairs keystore k: create_client, and the handle cached
CreateClient(k) ==
    /\ runs_in_hwd_thread(hwd_thread, 0)
    /\ clients[k].created = Pending
    /\ sessions[k].pc = "idle"
    /\ \E transport \in {"ok", "raise", "none"}, ping_ok \in BOOLEAN, handler \in BOOLEAN :
          LET client == create_client(clients[k].firmware, transport, ping_ok, handler)
          IN  clients' = [clients EXCEPT
                  ![k].created = client,
                  ![k].handle = IF client.status = "ok" THEN client.value ELSE None]
    /\ UNCHANGED <<call, ret, prev_tx, hwd_thread, sessions>>

\* get_client: the cached handle of the keystore, if any
get_client(k) == clients[k].handle

\* SafeTKeyStore.sign_transaction and SafeTPlugin.sign_transaction up to the
\* point where client.sign_tx blocks
KeystoreSignTransaction(k) ==
    /\ runs_in_hwd_thread(hwd_thread, 0)
    /\ sessions[k].pc = "idle"
    /\ LET dict == keystore_sign_transaction(sessions[k].tx)
           run == sign_transaction(prev_tx, get_client(k), KeystoreOf(k), sessions[k].tx,
                                   dict.value)
       IN  IF dict.status = "return"
           THEN /\ sessions' = [sessions EXCEPT ![k].pc = "returned"]
                /\ UNCHANGED <<prev_tx, hwd_thread>>
           ELSE IF dict.status = "raise"
           THEN /\ sessions' = [sessions EXCEPT ![k].pc = "raised",
                                                ![k].error = Some(dict.error)]
                /\ UNCHANGED <<prev_tx, hwd_thread>>
           ELSE /\ prev_tx' = run.prev_tx
                /\ IF run.outcome.status = "raise"
                   THEN /\ sessions' = [sessions EXCEPT ![k].pc = "raised",
                                                        ![k].started = TRUE,
                                                        ![k].prev_tx = Some(dict.value),
                                                        ![k].error = Some(run.outcome.error)]
                        /\ UNCHANGED hwd_thread
                   ELSE /\ sessions' = [sessions EXCEPT ![k].pc = "sign_tx",
                                                        ![k].started = TRUE,
                                                        ![k].prev_tx = Some(dict.value),
                                                        ![k].sign_tx = Some(run.outcome.value)]
                        /\ hwd_thread' = k
    /\ UNCHANGED <<call, ret, clients>>

\* inside client.sign_tx the device asks for a previous transaction
DeviceRequestsTx(k) ==
    /\ sessions[k].pc = "sign_tx"
    /\ runs_in_hwd_thread(hwd_thread, k)
    /\ sessions[k].requests < MaxRequests
    /\ \E tx_hash \in RequestedHashes :
          sessions' = [sessions EXCEPT ![k].pc = "get_tx",
                                       ![k].requests = @ + 1,
                                       ![k].requested = Some(tx_hash)]
    /\ UNCHANGED <<call, ret, prev_tx, hwd_thread, clients>>

\* what sign_transaction does when client.sign_tx ends with `sign_tx`
EndOfSignTx(k, sign_tx) ==
    LET end == sign_transaction_return(sign_tx)
    IN  /\ sessions' = [sessions EXCEPT
               ![k].pc = IF end.raised = None THEN "returned" ELSE "raised",
               ![k].error = end.raised,
               ![k].device_signatures =
                   IF sign_tx.status = "ok" THEN Some(sign_tx.value) ELSE None,
               ![k].update_signatures = @ \o end.update_signatures]
        /\ hwd_thread' = 0

\* the callback get_tx runs; an exception in it ends client.sign_tx
GetTx(k) ==
    /\ sessions[k].pc = "get_tx"
    /\ runs_in_hwd_thread(hwd_thread, k)
    /\ LET t == get_tx(prev_tx, sessions[k].requested[1])
       IN  IF t.status = "ok"
           THEN /\ sessions' = [sessions EXCEPT
                       ![k].pc = "sign_tx",
                       ![k].requested = None,
                       ![k].supplied = @ + 1,
                       ![k].answer = Some([tx_hash |-> sessions[k].requested[1],
                                           reply |-> t.value])]
                /\ UNCHANGED hwd_thread
           ELSE EndOfSignTx(k, t)
    /\ UNCHANGED <<call, ret, prev_tx, clients>>

\* client.sign_tx ends: one signature per input, the user declined, or the
\* device or its transport failed
SignTxEnds(k) ==
    /\ sessions[k].pc = "sign_tx"
    /\ runs_in_hwd_thread(hwd_thread, k)
    /\ \E sign_tx \in {Ok(s) : s \in [Indices(sessions[k].tx.inputs) -> DeviceSignature]}
                      \cup {Raise("UserCancelled"), Raise("DeviceError")} :
          EndOfSignTx(k, sign_tx)
    /\ UNCHANGED <<call, ret, prev_tx, clients>>

Next ==
    \E k \in Keystores :
        \/ CreateClient(k)
        \/ KeystoreSignTransaction(k)
        \/ DeviceRequestsTx(k)
        \/ GetTx(k)
        \/ SignTxEnds(k)

Spec == Init /\ [][Next]_vars

\* ------------------------------------------------------------------ claims
\* an output request emitted "by derivation" carries a path and no address
ByDerivation(txoutputtype) == txoutputtype.address_n # <<>>

\* outputs owned by the wallet whose change flag equals the transaction's
MatchingOutputs(tx) ==
    {i \in Indices(tx.outputs) :
        /\ tx.outputs[i].is_mine
        /\ tx.outputs[i].is_change = is_any_tx_output_on_change_branch(tx)}

DerivedOutputs(outputs) == {i \in Indices(outputs) : ByDerivation(outputs[i])}

\* C1: in every list tx_outputs returns, at most one output is emitted by
\* derivation, and none is when no owned output has is_change equal to
\* is_any_tx_output_on_change_branch(tx).
C1_AtMostOneByDerivation ==
    (call.fn = "tx_outputs" /\ ret.outputs.status = "ok") =>
        /\ Cardinality(DerivedOutputs(ret.outputs.value)) <= 1
        /\ MatchingOutputs(call.tx) = {} => DerivedOutputs(ret.outputs.value) = {}

\* two owned outputs match the classification and the list came back
C1_Witness ==
    /\ call.fn = "tx_outputs" /\ ret.outputs.status = "ok"
    /\ Cardinality(MatchingOutputs(call.tx)) >= 2
    /\ Cardinality(DerivedOutputs(ret.outputs.value)) = 1

BothReturned(r, x, y) == r[x].status = "ok" /\ r[y].status = "ok"

\* C3 as stated: for any threshold and any two orderings of the same
\* co-signer pairs, _make_multisig returns the same pubkeys sequence.
C3_MakeMultisigOrderIndependent ==
    (/\ call.fn = "_make_multisig" /\ Len(call.given) >= 2
     /\ BothReturned(ret, "given", "reordered")) =>
        ret.given.value[1].pubkeys = ret.reordered.value[1].pubkeys

\* C3 amended: _make_multisig keeps the order it is given; show_address sorts
\* the (address public key, extended key) pairs before calling it, so two
\* wallets holding the same co-signers in different keystore order show the
\* address with identical descriptors; a lone keystore gets no descriptor.
C3_ShowAddressOrderIndependent ==
    /\ (call.fn = "show_address" /\ BothReturned(ret, "wallet", "cosigner_wallet")) =>
          /\ ret.wallet.value.multisig = ret.cosigner_wallet.value.multisig
          /\ Len(call.wallet) = 1 <=> ret.wallet.value.multisig = None
    /\ (call.fn = "_make_multisig" /\ Len(call.given) >= 2 /\ ret.given.status = "ok") =>
          \A i \in Indices(call.given) :
              ret.given.value[1].pubkeys[i] = _make_node_path(call.given[i], call.der_suffix)

\* two wallets with the co-signers in different order both showed the address
C3_Witness ==
    /\ call.fn = "show_address" /\ BothReturned(ret, "wallet", "cosigner_wallet")
    /\ Len(call.wallet) >= 2 /\ call.wallet # call.cosigner_wallet
    /\ ret.wallet.value.multisig # None

NoPathInputs(tx) ==
    {i \in Indices(tx.inputs) :
        /\ ~is_coinbase_input(tx.inputs[i])
        /\ find_my_pubkey_in_txinout(MyKeystore, tx.inputs[i]) = None}

StripSigningFields(txinputtype) ==
    [txinputtype EXCEPT !.script_type = None, !.multisig = None, !.address_n = <<>>]

\* C7: whenever tx_inputs(for_sig=True) returns a list, clearing script type,
\* multisig descriptor and address_n in each input gives exactly the list
\* tx_inputs returns in reference mode: same length, order, prev_hash,
\* prev_index, amount, script_sig and sequence.  Reference mode never fails.
C7_StrippedSigningEqualsReference ==
    (call.fn = "tx_inputs" /\ ret.for_sig # Pending /\ ret.reference # Pending) =>
        /\ ret.reference.status = "ok"
        /\ Len(ret.reference.value) = Len(call.tx.inputs)
        /\ ret.for_sig.status = "ok" =>
              /\ Len(ret.for_sig.value) = Len(ret.reference.value)
              /\ \A i \in Indices(ret.for_sig.value) :
                    StripSigningFields(ret.for_sig.value[i]) = ret.reference.value[i]

\* a coinbase input next to a signed-for input that already has a scriptSig:
\* the two translations differ and stripping is what makes them equal
C7_Witness ==
    /\ call.fn = "tx_inputs" /\ BothReturned(ret, "for_sig", "reference")
    /\ \E i, j \in Indices(call.tx.inputs) :
          /\ is_coinbase_input(call.tx.inputs[i])
          /\ ~is_coinbase_input(call.tx.inputs[j])
          /\ call.tx.inputs[j].script_sig # None
          /\ ret.for_sig.value[j] # ret.reference.value[j]

DescriptorShape(desc, n) ==
    /\ Len(desc.pubkeys) = n
    /\ Len(desc.signatures) = n
    /\ \A i \in 1..n : desc.signatures[i] = <<>>

\* C10 as stated: None for one co-signer; every descriptor returned has n
\* pubkeys, n empty signature placeholders and a threshold with 1 <= m <= n.
C10_DescriptorThresholdInRange ==
    (call.fn = "_make_multisig" /\ ret.given # Pending) =>
        /\ Len(call.given) = 1 => ret.given.value = None
        /\ ret.given.value # None =>
              /\ DescriptorShape(ret.given.value[1], Len(call.given))
              /\ 1 <= ret.given.value[1].m /\ ret.given.value[1].m <= Len(call.given)

\* C10 amended: None for exactly one co-signer and a descriptor otherwise;
\* every descriptor has n pubkeys and n empty signature placeholders, and its
\* threshold is the m it was called with, unchecked: 1 <= m <= n holds
\* exactly when the caller's threshold is in that range.
C10_DescriptorShapeAndThresholdPassedThrough ==
    (call.fn = "_make_multisig" /\ ret.given # Pending) =>
        /\ Len(call.given) = 1 <=> ret.given.value = None
        /\ ret.given.value # None =>
              /\ DescriptorShape(ret.given.value[1], Len(call.given))
              /\ ret.given.value[1].m = call.m

\* a descriptor for two or more co-signers came back with the caller's
\* out-of-range threshold
C10_Witness ==
    /\ call.fn = "_make_multisig" /\ ret.given # Pending
    /\ Len(call.given) >= 2 /\ ret.given.value # None
    /\ call.m > Len(call.given)

\* ------------------------------------------------------- claims: sessions
\* the session states of the specification, read off the program's position
SessionState(s) ==
    IF ~s.started THEN "Idle"
    ELSE IF s.pc = "sign_tx" THEN "AwaitingDeviceConfirmation"
    ELSE IF s.pc = "get_tx" THEN "ReferencedTxRequested"
    ELSE IF s.pc = "returned" THEN "Completed"
    ELSE IF s.error = Some("UserCancelled") THEN "Cancelled"
    ELSE "Failed"

Terminal == {"Completed", "Cancelled", "Failed"}

\* C2: when the device asks get_tx for a hash that is no key of the prev_tx
\* map built for the session, the next step of the session is its failure
\* with KeyError (the specification's MissingPreviousTransactionError), and a
\* session that failed so has had no call of tx.update_signatures.
C2_MissingPrevTxAborts ==
    [][\A k \in Keystores :
          /\ (/\ sessions[k].pc = "get_tx"
              /\ sessions[k].requested[1] \notin DOMAIN sessions[k].prev_tx[1]
              /\ sessions'[k] # sessions[k]) =>
                 /\ SessionState(sessions'[k]) = "Failed"
                 /\ sessions'[k].error = Some("KeyError")
          /\ sessions'[k].error = Some("KeyError") =>
                 /\ SessionState(sessions'[k]) = "Failed"
                 /\ sessions'[k].update_signatures = <<>>
                 /\ sessions'[k].requested # None
                 /\ sessions'[k].requested[1] \notin DOMAIN sessions'[k].prev_tx[1]]_vars

\* a session failed on a hash outside its map after an earlier callback was
\* answered
C2_Witness ==
    \E k \in Keystores :
        /\ sessions[k].error = Some("KeyError")
        /\ sessions[k].supplied >= 1
        /\ sessions[k].requested[1] \notin DOMAIN sessions[k].prev_tx[1]

SessionStep(s, t) ==
    <<SessionState(s), SessionState(t)>> \in
        {<<"Idle", "AwaitingDeviceConfirmation">>,
         <<"Idle", "Failed">>,
         <<"AwaitingDeviceConfirmation", "ReferencedTxRequested">>,
         <<"ReferencedTxRequested", "AwaitingDeviceConfirmation">>,
         <<"ReferencedTxRequested", "Failed">>,
         <<"AwaitingDeviceConfirmation", "Completed">>,
         <<"AwaitingDeviceConfirmation", "Cancelled">>,
         <<"AwaitingDeviceConfirmation", "Failed">>}

C8_OldFirmwareNeverSigns ==
    \A k \in Keystores :
        clients[k].firmware \in OldFirmwares =>
            /\ clients[k].handle = None
            /\ clients[k].created # Pending =>
                   \/ clients[k].created = Ok(None)
                   \/ clients[k].created = Raise("UserFacingException")
            /\ sessions[k].sign_tx = None
            /\ SessionState(sessions[k]) \in {"Idle", "Failed"}

\* a device with firmware 0.9.9 answered the ping, was refused, and the
\* session of its keystore failed without calling the device
C8_Witness ==
    \E k \in Keystores :
        /\ clients[k].firmware = <<0, 9, 9>>
        /\ clients[k].created = Raise("UserFacingException")
        /\ SessionState(sessions[k]) = "Failed"
        /\ sessions[k].error = Some("AttributeError")

HexValue(c) == (CHOOSE i \in Indices(HexDigits) : HexDigits[i] = c) - 1

\* C9: a completed session has called tx.update_signatures exactly once, with
\* one string per input, the i-th being the hex of the i-th signature the
\* device returned followed by "01"; before client.sign_tx has returned
\* signatures there is no such call.
C9_SignaturesHandedOver ==
    \A k \in Keystores :
        LET s == sessions[k]
        IN  /\ (s.started /\ s.pc = "returned") =>
                  /\ Len(s.update_signatures) = 1
                  /\ s.device_signatures # None
                  /\ Len(s.update_signatures[1]) = Len(s.tx.inputs)
                  /\ \A i \in Indices(s.tx.inputs) :
                        LET sig == s.update_signatures[1][i]
                            raw == s.device_signatures[1][i]
                        IN  /\ Len(sig) = 2 * Len(raw) + 2
                            /\ \A b \in Indices(raw) :
                                  16 * HexValue(sig[2 * b - 1]) + HexValue(sig[2 * b]) = raw[b]
                            /\ sig[Len(sig) - 1] = "0" /\ sig[Len(sig)] = "1"
            /\ s.update_signatures # <<>> =>
                  s.pc = "returned" /\ s.device_signatures # None

\* a session over MaxInputs inputs completed with two different signatures
C9_Witness ==
    \E k \in Keystores :
        /\ sessions[k].started /\ sessions[k].pc = "returned"
        /\ Len(sessions[k].tx.inputs) = MaxInputs
        /\ \E i, j \in Indices(sessions[k].tx.inputs) :
              sessions[k].update_signatures[1][i] # sessions[k].update_signatures[1][j]

\* an output request emitted by explicit address: the literal address of the
\* transaction output, and neither a path nor a payload
ByExplicitAddress(txout, txoutputtype) ==
    /\ txout.address # None
    /\ txoutputtype.address = txout.address
    /\ txoutputtype.script_type = Some("PAYTOADDRESS")
    /\ txoutputtype.address_n = <<>> /\ txoutputtype.multisig = None
    /\ txoutputtype.op_return_data = None

\* an output request emitted as an OP_RETURN payload: the data of an
\* address-less data-carrier output
AsOpReturn(txout, txoutputtype) ==
    /\ txout.address = None
    /\ txout.scriptpubkey.kind = "op_return"
    /\ txoutputtype.op_return_data = Some(txout.scriptpubkey.data)
    /\ txoutputtype.script_type = Some("PAYTOOPRETURN")
    /\ txoutputtype.address_n = <<>> /\ txoutputtype.multisig = None
    /\ txoutputtype.address = None

\* the first output, in output order, that is owned and whose change flag
\* equals the transaction's classification
FirstMatching(tx) ==
    {i \in MatchingOutputs(tx) : \A j \in MatchingOutputs(tx) : i <= j}

\* C11: in every list tx_outputs returns, an output is emitted by derivation
\* only if it is owned (is_mine) and its is_change equals
\* is_any_tx_output_on_change_branch(tx); the one so emitted is the first such
\* output in output order; every other output, owned or not, is emitted by
\* explicit address or as an OP_RETURN payload; and the list has the length
\* and the order of tx.outputs().
C11_FirstMatchingByDerivationRestExplicit ==
    (call.fn = "tx_outputs" /\ ret.outputs.status = "ok") =>
        LET tx == call.tx
            outputs == ret.outputs.value
        IN  /\ Len(outputs) = Len(tx.outputs)
            /\ \A i \in Indices(tx.outputs) :
                  /\ outputs[i].amount = Some(tx.outputs[i].value)
                  /\ ByDerivation(outputs[i]) <=> i \in FirstMatching(tx)
                  /\ ByDerivation(outputs[i]) =>
                        /\ outputs[i].address = None
                        /\ outputs[i].op_return_data = None
                  /\ ~ByDerivation(outputs[i]) =>
                        \/ ByExplicitAddress(tx.outputs[i], outputs[i])
                        \/ AsOpReturn(tx.outputs[i], outputs[i])

\* a returned list in which an owned output whose change flag differs from
\* the classification went out by address, a later matching output went out
\* by derivation
C11_Witness ==
    /\ call.fn = "tx_outputs" /\ ret.outputs.status = "ok"
    /\ \E i, j \in Indices(call.tx.outputs) :
          /\ i < j
          /\ call.tx.outputs[i].is_mine /\ i \notin MatchingOutputs(call.tx)
          /\ ByExplicitAddress(call.tx.outputs[i], ret.outputs.value[i])
          /\ j \in FirstMatching(call.tx)
          /\ ByDerivation(ret.outputs.value[j])

====
